---- MODULE Spec2Model ----
(***************************************************************************)
(* Model of FindSimilarCoordinatesAlgorithm.processAlgorithm               *)
(* (src/similar_coordinate.py).  One run of the algorithm is a forward     *)
(* pipeline: buffer every input point, dissolve the buffers, split the     *)
(* union into singleparts, give each singlepart a location_id, index the   *)
(* singleparts, count the points per location_id, emit every point with    *)
(* its location_id and count_id.                                           *)
(*                                                                         *)
(* Geometry.  Points lie on the 3 x 3 integer grid, the smallest on which  *)
(* a point can lie inside the bounding box of a region it is not part of.  *)
(* A point geometry is the set of its coordinates: {<<x, y>>}, or {} for a *)
(* null/empty geometry.  A polygon is [discs, r]: the union of the buffers *)
(* of radius r around the centres in discs ({} is an empty polygon).  On   *)
(* this grid, with the integer radii used here, the 20-gon approximation   *)
(* of a buffer (5 segments per quarter circle) overlaps, touches and       *)
(* contains exactly what the disc does: its vertices on the axes are at    *)
(* distance r exactly, and every other grid distance differs from r and    *)
(* from 2r by more than the approximation error.                           *)
(***************************************************************************)
EXTENDS Integers, Sequences, FiniteSets, TLC

\* ---------------------------------------------------------------- bounds
MaxPts == 3
MaxDist == 1

\* Python's None, as written for an unassigned point (ids start at 1).
None == -1

Coords == 0..2
Grid == Coords \X Coords
PointGeoms == {{}} \cup {{p} : p \in Grid}
\* The attribute list of a feature is opaque to the algorithm (it is only
\* copied); every input feature carries one attribute, its row number.
Attributes(i) == <<i>>
DistVals == (0 - 1)..MaxDist

VARIABLES
    features,              \* input_layer.getFeatures(), in iteration order
    buffer_distance,       \* the DISTANCE parameter
    pc,                    \* position of the run in processAlgorithm
    idx,                   \* number of iterations done in the current loop
    feature_buffers,
    dissolved_geometry,
    singlepart_geometries,
    singlepart_layer,      \* features of the memory layer; fid = position
    location_id,
    spatial_index,
    location_id_count,
    assigned_location_id,
    sink,                  \* features added to the output sink
    canceled               \* the host asked feedback to cancel

vars == <<features, buffer_distance, pc, idx, feature_buffers, dissolved_geometry,
          singlepart_geometries, singlepart_layer, location_id, spatial_index,
          location_id_count, assigned_location_id, sink, canceled>>

\* ------------------------------------------------------------- geometry
Min(S) == CHOOSE m \in S : \A x \in S : m <= x
Max(S) == CHOOSE m \in S : \A x \in S : m >= x

Dist2(p, q) == (p[1] - q[1]) * (p[1] - q[1]) + (p[2] - q[2]) * (p[2] - q[2])

EmptyPolygon == [discs |-> {}, r |-> 0]

\* QgsGeometry.buffer(distance, 5): a null geometry buffers to a null geometry,
\* a point with a distance <= 0 to an empty polygon.
Buffer(geom, d) ==
    IF geom = {} \/ d <= 0 THEN EmptyPolygon ELSE [discs |-> geom, r |-> d]

\* Faulty variant: buffers that only touch are merged too.
OverlapOrTouch(a, b, d) == d > 0 /\ Dist2(a, b) <= 4 * d * d

\* Two buffers share interior area (buffers that only touch do not merge).
Overlap(a, b, d) == d > 0 /\ Dist2(a, b) < 4 * d * d

RECURSIVE Merge(_, _)
Merge(parts, d) ==
    LET pairs == {pr \in parts \X parts :
                     /\ pr[1] # pr[2]
                     /\ \E a \in pr[1], b \in pr[2] : Overlap(a, b, d)}
    IN  IF pairs = {} THEN parts
        ELSE LET pr == CHOOSE x \in pairs : TRUE
             IN  Merge((parts \ {pr[1], pr[2]}) \cup {pr[1] \cup pr[2]}, d)

\* QgsGeometry.unaryUnion(feature_buffers): null and empty members add nothing;
\* the result is the set of connected parts of the union.
UnaryUnion(buffers) ==
    LET live == {i \in 1..Len(buffers) : buffers[i].discs # {}}
        centres == UNION {buffers[i].discs : i \in live}
        d == IF live = {} THEN 0 ELSE buffers[CHOOSE i \in live : TRUE].r
    IN  [parts |-> Merge({{c} : c \in centres}, d), r |-> d]

\* dissolved_geometry.isMultipart().  What the union of no area at all is (an
\* empty collection, an empty polygon or a null geometry) depends on the
\* QGIS/GEOS build, so both answers are possible for it.
IsMultipart(g) ==
    IF Cardinality(g.parts) >= 2 THEN {TRUE}
    ELSE IF Cardinality(g.parts) = 1 THEN {FALSE}
    ELSE {TRUE, FALSE}

\* dissolved_geometry.asGeometryCollection(): the parts, in an order the
\* library chooses.
AsGeometryCollection(g) ==
    LET n == Cardinality(g.parts)
    IN  {[i \in 1..n |-> [discs |-> s[i], r |-> g.r]] :
            s \in {t \in [1..n -> g.parts] : \A i, j \in 1..n : t[i] = t[j] => i = j}}

\* [dissolved_geometry]: the whole geometry as the only singlepart.
AsSingle(g) ==
    IF g.parts = {} THEN <<EmptyPolygon>>
    ELSE <<[discs |-> CHOOSE s \in g.parts : TRUE, r |-> g.r]>>

\* geom.boundingBox(): <<xmin, ymin, xmax, ymax>>; QgsRectangle() of a null
\* geometry is the box <<0, 0, 0, 0>>.
PointBox(geom) ==
    IF geom = {} THEN <<0, 0, 0, 0>>
    ELSE LET p == CHOOSE q \in geom : TRUE IN <<p[1], p[2], p[1], p[2]>>

PolygonBox(poly) ==
    <<Min({c[1] : c \in poly.discs}) - poly.r, Min({c[2] : c \in poly.discs}) - poly.r,
      Max({c[1] : c \in poly.discs}) + poly.r, Max({c[2] : c \in poly.discs}) + poly.r>>

BoxesIntersect(a, b) ==
    a[1] <= b[3] /\ b[1] <= a[3] /\ a[2] <= b[4] /\ b[2] <= a[4]

\* QgsGeometry.intersects: false for a null or empty geometry on either side.
Intersects(poly, geom) ==
    \E c \in poly.discs, p \in geom : Dist2(c, p) <= poly.r * poly.r

\* QgsSpatialIndex over the layer (addFeature skips a feature with no geometry).
BuildIndex(layer) ==
    {[id |-> f, box |-> PolygonBox(layer[f].geom)] :
        f \in {k \in 1..Len(layer) : layer[k].geom.discs # {}}}

\* spatial_index.intersects(rect): the fids whose bounding box meets rect.
IndexIntersects(index, rect) == {e.id : e \in {x \in index : BoxesIntersect(x.box, rect)}}

\* ----------------------------------------------------------- classifier
\* Faulty variant: the exact test of line 116 / 135 dropped.
LocationIdsNoExactTest(index, layer, geom) ==
    {layer[id].location_id : id \in IndexIntersects(index, PointBox(geom))}

\* Lines 112-117 and 131-136: the location ids of the candidates that
\* really intersect the point.
LocationIds(index, layer, geom) ==
    {layer[id].location_id :
        id \in {c \in IndexIntersects(index, PointBox(geom)) : Intersects(layer[c].geom, geom)}}

\* Faulty variant: max instead of min.
AssignedMax(ids) == IF ids # {} THEN Max(ids) ELSE None

\* Lines 119-120/126 and 138-139/142.
Assigned(ids) == IF ids # {} THEN Min(ids) ELSE None

\* Faulty variant: an id already counted is reset to 1 instead of incremented.
CountResets(counts, id) ==
    IF id = None THEN counts
    ELSE [k \in DOMAIN counts \cup {id} |-> IF k = id THEN 1 ELSE counts[k]]

\* Lines 119-126: the tally update for one point.
Count(counts, id) ==
    IF id = None THEN counts
    ELSE IF id \in DOMAIN counts
         THEN [counts EXCEPT ![id] = counts[id] + 1]
         ELSE [k \in DOMAIN counts \cup {id} |-> IF k = id THEN 1 ELSE counts[k]]

\* Faulty variant: the default is returned for every id.
CountIdAlwaysDefault(counts, id) == 0

\* Lines 138-143: count_id of one point.
CountId(counts, id) ==
    IF id = None THEN 0
    ELSE IF id \in DOMAIN counts THEN counts[id] ELSE 0

\* Faulty variant: the two new values are put in front of the original attributes.
OutputAttributesInFront(attrs, id, cnt) == <<id, cnt>> \o attrs

\* Line 147: input_feature.attributes() + [assigned_location_id, count_id].
OutputAttributes(attrs, id, cnt) == attrs \o <<id, cnt>>

\* Faulty variant: the counter is not advanced.
NextLocationIdStuck(id) == id

\* Line 98.
NextLocationId(id) == id + 1

EmptyCount == [k \in {} |-> 0]
NoGeometry == [parts |-> {}, r |-> 0]

\* ------------------------------------------------------------------ run
FeatureSeqs ==
    UNION {{[i \in 1..n |-> [geom |-> g[i], attrs |-> Attributes(i)]] : g \in [1..n -> PointGeoms]} :
              n \in 0..MaxPts}

Init ==
    /\ features \in FeatureSeqs
    /\ buffer_distance \in DistVals
    /\ pc = "start"
    /\ idx = 0
    /\ feature_buffers = <<>>
    /\ dissolved_geometry = NoGeometry
    /\ singlepart_geometries = <<>>
    /\ singlepart_layer = <<>>
    /\ location_id = 0
    /\ spatial_index = {}
    /\ location_id_count = EmptyCount
    /\ assigned_location_id = None
    /\ sink = <<>>
    /\ canceled = FALSE

\* Lines 49-65: parameters read, output fields prepared, sink created.
\* The distance is not examined.
Start ==
    /\ pc = "start"
    /\ pc' = "buffer"
    /\ idx' = 0
    /\ feature_buffers' = <<>>
    /\ sink' = <<>>
    /\ UNCHANGED <<features, buffer_distance, dissolved_geometry, singlepart_geometries,
                   singlepart_layer, location_id, spatial_index, location_id_count,
                   assigned_location_id, canceled>>

\* Lines 67-70: one iteration of the buffering loop.
BufferStep ==
    /\ pc = "buffer"
    /\ idx < Len(features)
    /\ feature_buffers' = Append(feature_buffers, Buffer(features[idx + 1].geom, buffer_distance))
    /\ idx' = idx + 1
    /\ UNCHANGED <<features, buffer_distance, pc, dissolved_geometry, singlepart_geometries,
                   singlepart_layer, location_id, spatial_index, location_id_count,
                   assigned_location_id, sink, canceled>>

\* Lines 73-74: the buffering loop is over; dissolve.
Dissolve ==
    /\ pc = "buffer"
    /\ idx = Len(features)
    /\ dissolved_geometry' = UnaryUnion(feature_buffers)
    /\ pc' = "split"
    /\ UNCHANGED <<features, buffer_distance, idx, feature_buffers, singlepart_geometries,
                   singlepart_layer, location_id, spatial_index, location_id_count,
                   assigned_location_id, sink, canceled>>

\* Lines 77-92: singleparts, the empty memory layer, location_id = 1.
SinglePart ==
    /\ pc = "split"
    /\ \E multi \in IsMultipart(dissolved_geometry) :
          IF multi
          THEN singlepart_geometries' \in AsGeometryCollection(dissolved_geometry)
          ELSE singlepart_geometries' = AsSingle(dissolved_geometry)
    /\ singlepart_layer' = <<>>
    /\ location_id' = 1
    /\ idx' = 0
    /\ pc' = "regions"
    /\ UNCHANGED <<features, buffer_distance, feature_buffers, dissolved_geometry,
                   spatial_index, location_id_count, assigned_location_id, sink, canceled>>

\* Lines 93-98: one singlepart becomes a feature of the layer.
AddRegion ==
    /\ pc = "regions"
    /\ idx < Len(singlepart_geometries)
    /\ singlepart_layer' = Append(singlepart_layer,
           [geom |-> singlepart_geometries[idx + 1], location_id |-> location_id])
    /\ location_id' = NextLocationId(location_id)
    /\ idx' = idx + 1
    /\ UNCHANGED <<features, buffer_distance, pc, feature_buffers, dissolved_geometry,
                   singlepart_geometries, spatial_index, location_id_count,
                   assigned_location_id, sink, canceled>>

\* Lines 100-109: the layer is complete; index it, start the tally.
Index ==
    /\ pc = "regions"
    /\ idx = Len(singlepart_geometries)
    /\ spatial_index' = BuildIndex(singlepart_layer)
    /\ location_id_count' = EmptyCount
    /\ idx' = 0
    /\ pc' = "tally"
    /\ UNCHANGED <<features, buffer_distance, feature_buffers, dissolved_geometry,
                   singlepart_geometries, singlepart_layer, location_id,
                   assigned_location_id, sink, canceled>>

\* Lines 110-126: one iteration of the counting loop.
TallyStep ==
    /\ pc = "tally"
    /\ idx < Len(features)
    /\ LET id == Assigned(LocationIds(spatial_index, singlepart_layer, features[idx + 1].geom))
       IN  /\ assigned_location_id' = id
           /\ location_id_count' = Count(location_id_count, id)
    /\ idx' = idx + 1
    /\ UNCHANGED <<features, buffer_distance, pc, feature_buffers, dissolved_geometry,
                   singlepart_geometries, singlepart_layer, location_id, spatial_index,
                   sink, canceled>>

\* Line 129: the counting loop is over; the emitting loop begins.
BeginEmit ==
    /\ pc = "tally"
    /\ idx = Len(features)
    /\ idx' = 0
    /\ pc' = "emit"
    /\ UNCHANGED <<features, buffer_distance, feature_buffers, dissolved_geometry,
                   singlepart_geometries, singlepart_layer, location_id, spatial_index,
                   location_id_count, assigned_location_id, sink, canceled>>

\* Lines 129-148: one iteration of the emitting loop.
EmitStep ==
    /\ pc = "emit"
    /\ idx < Len(features)
    /\ LET f == features[idx + 1]
           id == Assigned(LocationIds(spatial_index, singlepart_layer, f.geom))
           count_id == CountId(location_id_count, id)
       IN  /\ assigned_location_id' = id
           /\ sink' = Append(sink, [geom |-> f.geom,
                                    attrs |-> OutputAttributes(f.attrs, id, count_id)])
    /\ idx' = idx + 1
    /\ UNCHANGED <<features, buffer_distance, pc, feature_buffers, dissolved_geometry,
                   singlepart_geometries, singlepart_layer, location_id, spatial_index,
                   location_id_count, canceled>>

\* Lines 150-151: the run returns.
Finish ==
    /\ pc = "emit"
    /\ idx = Len(features)
    /\ pc' = "done"
    /\ UNCHANGED <<features, buffer_distance, idx, feature_buffers, dissolved_geometry,
                   singlepart_geometries, singlepart_layer, location_id, spatial_index,
                   location_id_count, assigned_location_id, sink, canceled>>

\* The host cancels the feedback object while the run is under way.  No line of
\* processAlgorithm reads feedback.isCanceled().
RequestCancel ==
    /\ pc # "done"
    /\ ~canceled
    /\ canceled' = TRUE
    /\ UNCHANGED <<features, buffer_distance, pc, idx, feature_buffers, dissolved_geometry,
                   singlepart_geometries, singlepart_layer, location_id, spatial_index,
                   location_id_count, assigned_location_id, sink>>

Next ==
    \/ Start
    \/ BufferStep
    \/ Dissolve
    \/ SinglePart
    \/ AddRegion
    \/ Index
    \/ TallyStep
    \/ BeginEmit
    \/ EmitStep
    \/ Finish

Spec == Init /\ [][Next]_vars

\* The same run with a host that may cancel it at any moment.
NextCancel ==
    \/ Next
    \/ RequestCancel

SpecCancel == Init /\ [][NextCancel]_vars


\* -------------------------------------------------- classifier in isolation
\* Lines 110-148 as a function of the region layer and the points alone: the
\* layer is drawn from all two-region layers, overlapping regions and
\* arbitrary distinct location ids included, and the two loops run over it.
SynthRadius == 1..MaxDist
SynthIds == 1..MaxPts
SynthLayers ==
    {<<[geom |-> [discs |-> {c[1]}, r |-> d], location_id |-> ab[1]],
       [geom |-> [discs |-> {c[2]}, r |-> d], location_id |-> ab[2]]>> :
        c \in Grid \X Grid, d \in SynthRadius,
        ab \in {x \in SynthIds \X SynthIds : x[1] # x[2]}}
SynthFeatures ==
    UNION {{[i \in 1..n |-> [geom |-> g[i], attrs |-> Attributes(i)]] : g \in [1..n -> PointGeoms]} :
              n \in 1..2}

InitClassify ==
    /\ features \in SynthFeatures
    /\ singlepart_layer \in SynthLayers
    /\ buffer_distance = singlepart_layer[1].geom.r
    /\ pc = "tally"
    /\ idx = 0
    /\ feature_buffers = [i \in 1..Len(features) |-> Buffer(features[i].geom, buffer_distance)]
    /\ dissolved_geometry = NoGeometry
    /\ singlepart_geometries = [k \in 1..Len(singlepart_layer) |-> singlepart_layer[k].geom]
    /\ location_id = Max({singlepart_layer[k].location_id : k \in 1..Len(singlepart_layer)}) + 1
    /\ spatial_index = BuildIndex(singlepart_layer)
    /\ location_id_count = EmptyCount
    /\ assigned_location_id = None
    /\ sink = <<>>
    /\ canceled = FALSE

NextClassify ==
    \/ TallyStep
    \/ BeginEmit
    \/ EmitStep
    \/ Finish

SpecClassify == InitClassify /\ [][NextClassify]_vars

\* ---------------------------------------------------------------- claims
N == Len(features)
Valid == {i \in 1..N : features[i].geom # {}}
Pt(i) == CHOOSE p \in features[i].geom : TRUE
Loc(i) == sink[i].attrs[Len(sink[i].attrs) - 1]
Cnt(i) == sink[i].attrs[Len(sink[i].attrs)]

\* The buffers of input points i and j share area.
BuffersOverlap(i, j) ==
    /\ buffer_distance > 0
    /\ Dist2(Pt(i), Pt(j)) < (2 * buffer_distance) * (2 * buffer_distance)

\* The valid points linked to a point of S by a chain of overlapping buffers.
RECURSIVE Reach(_)
Reach(S) ==
    LET T == S \cup {j \in Valid : \E i \in S : BuffersOverlap(i, j)}
    IN  IF T = S THEN S ELSE Reach(T)

\* The region the classifier gives input point i.
RegionOf(i) == Assigned(LocationIds(spatial_index, singlepart_layer, features[i].geom))

\* The number of input points, among the first n, whose region is R.
TallyOf(R, n) == Cardinality({i \in 1..n : RegionOf(i) = R})

RegionIds == {singlepart_layer[k].location_id : k \in 1..Len(singlepart_layer)}

\* C1: the sink holds one record per input feature, in input order; record i
\* has feature i's geometry and feature i's attributes, unchanged and in
\* order, followed by exactly two values (location_id, count_id).  During
\* emission the sink is the prefix written so far; nothing is dropped,
\* duplicated or reordered.
C1_OutputMirrorsInput ==
    /\ Len(sink) <= N
    /\ pc = "emit" => Len(sink) = idx
    /\ pc = "done" => Len(sink) = N
    /\ \A i \in 1..Len(sink) :
          /\ sink[i].geom = features[i].geom
          /\ Len(sink[i].attrs) = Len(features[i].attrs) + 2
          /\ SubSeq(sink[i].attrs, 1, Len(features[i].attrs)) = features[i].attrs
          /\ Loc(i) = RegionOf(i)
          /\ Cnt(i) = CountId(location_id_count, RegionOf(i))

C1_Witness ==
    /\ pc = "done"
    /\ N >= 2
    /\ Len(sink) = N
    /\ features[1].attrs # features[2].attrs
    /\ sink[2].attrs = <<2, Loc(2), Cnt(2)>>
    /\ features[1].geom # features[2].geom

\* C2: after the counting pass location_id_count[R] is the number of input
\* points whose region is R, a region without points is absent from the
\* mapping, and the count_id of an output record with location_id R is the
\* number of output records with location_id R.  (During the pass the mapping
\* is the tally of the points counted so far.)
C2_TallyCorrect ==
    /\ pc = "tally" =>
          \A R \in RegionIds \cup DOMAIN location_id_count :
              IF TallyOf(R, idx) > 0
              THEN R \in DOMAIN location_id_count /\ location_id_count[R] = TallyOf(R, idx)
              ELSE R \notin DOMAIN location_id_count
    /\ pc \in {"emit", "done"} =>
          \A R \in RegionIds \cup DOMAIN location_id_count :
              IF TallyOf(R, N) > 0
              THEN R \in DOMAIN location_id_count /\ location_id_count[R] = TallyOf(R, N)
              ELSE R \notin DOMAIN location_id_count
    /\ pc = "done" =>
          \A i \in 1..N :
              Loc(i) # None => Cnt(i) = Cardinality({j \in 1..N : Loc(j) = Loc(i)})

C2_Witness ==
    /\ pc = "done"
    /\ Cardinality(DOMAIN location_id_count) >= 2
    /\ \E R \in DOMAIN location_id_count : location_id_count[R] >= 2

\* C3: with a positive distance, two valid points get the same location_id
\* exactly when a chain of overlapping buffers links them; every valid point
\* is assigned, its count_id is the size of its chain-connected group, and
\* there are as many regions as groups (one isolated point: one region, count
\* 1; two overlapping: one region, count 2 each; two apart: two regions,
\* count 1 each).
C3_SameIdIffConnected ==
    (pc = "done" /\ buffer_distance > 0) =>
        /\ \A i \in Valid :
              /\ Loc(i) # None
              /\ Cnt(i) = Cardinality(Reach({i}))
              /\ \A j \in Valid : (Loc(i) = Loc(j)) <=> (j \in Reach({i}))
        /\ Valid # {} => Len(singlepart_layer) = Cardinality({Reach({i}) : i \in Valid})

C3_Witness ==
    /\ pc = "done"
    /\ buffer_distance > 0
    /\ \E i, j \in Valid : i # j /\ ~BuffersOverlap(i, j) /\ Loc(i) = Loc(j) /\ Cnt(i) = 3

C3_WitnessApart ==
    /\ pc = "done"
    /\ buffer_distance > 0
    /\ \E i, j \in Valid : Loc(i) # Loc(j) /\ Cnt(i) = 1 /\ Cnt(j) = 2

\* C4: with a negative distance the run fails before processing begins:
\* nothing is buffered, no region is built, nothing is classified or written,
\* and the run does not complete.
C4_NegativeDistanceRejected ==
    buffer_distance < 0 =>
        /\ feature_buffers = <<>>
        /\ singlepart_layer = <<>>
        /\ sink = <<>>
        /\ pc \notin {"split", "regions", "tally", "emit", "done"}

ExactIds(geom) ==
    {singlepart_layer[k].location_id :
        k \in {m \in 1..Len(singlepart_layer) : Intersects(singlepart_layer[m].geom, geom)}}

MinimumOrNone(S) == IF S = {} THEN None ELSE CHOOSE m \in S : \A x \in S : m <= x

C6_MinimumTieBreak ==
    /\ (pc \in {"tally", "emit"} /\ idx >= 1) =>
          assigned_location_id = MinimumOrNone(ExactIds(features[idx].geom))
    /\ \A i \in 1..Len(sink) : Loc(i) = MinimumOrNone(ExactIds(features[i].geom))
    /\ pc \in {"emit", "done"} =>
          \A R \in DOMAIN location_id_count :
              location_id_count[R] =
                  Cardinality({i \in 1..N : MinimumOrNone(ExactIds(features[i].geom)) = R})

C6_Witness ==
    /\ pc = "done"
    /\ Cardinality(ExactIds(features[1].geom)) = 2
    /\ singlepart_layer[1].location_id > singlepart_layer[2].location_id
    /\ Loc(1) = singlepart_layer[2].location_id

\* C7: once the host has requested cancellation the run executes no later
\* phase (buffering, merging, classifying, emitting) and does not return with
\* records in the sink.
PhaseOf(p) ==
    CASE p \in {"start", "buffer"} -> 1
      [] p \in {"split", "regions"} -> 2
      [] p = "tally" -> 3
      [] p = "emit" -> 4
      [] OTHER -> 5

C7_CancelStopsAtBoundary ==
    [][canceled =>
          /\ PhaseOf(pc') = PhaseOf(pc) \/ (pc' = "done" /\ sink' = <<>>)]_vars

\* C8: a feature with a null/empty geometry adds nothing to the union: the
\* parts of the union are built from the valid features' points only and
\* there are as many as the valid features alone give; with at least one
\* valid buffer no other region exists.  The feature is emitted at its input
\* position with location_id None and count_id 0, and the count of every
\* valid point is the size of its group among the valid points.
C8_DegenerateFeaturePassThrough ==
    /\ pc \notin {"start", "buffer"} =>
          /\ UNION dissolved_geometry.parts \subseteq {Pt(i) : i \in Valid}
          /\ Cardinality(dissolved_geometry.parts) =
                IF buffer_distance > 0 THEN Cardinality({Reach({i}) : i \in Valid}) ELSE 0
    /\ (pc \in {"tally", "emit", "done"} /\ Valid # {} /\ buffer_distance > 0) =>
          Len(singlepart_layer) = Cardinality({Reach({i}) : i \in Valid})
    /\ \A i \in 1..Len(sink) :
          features[i].geom = {} => sink[i].geom = {} /\ Loc(i) = None /\ Cnt(i) = 0
    /\ (pc = "done" /\ buffer_distance > 0) =>
          /\ Len(sink) = N
          /\ \A i \in Valid : Cnt(i) = Cardinality(Reach({i}))

C8_Witness ==
    /\ pc = "done"
    /\ N = 3
    /\ buffer_distance > 0
    /\ features[1].geom = {}
    /\ features[2].geom = {<<0, 0>>}
    /\ features[3].geom # {}
    /\ Loc(1) = None
    /\ Cnt(2) = 2

\* C9: the pipeline runs forward.  Every point is buffered before the union
\* is taken; the regions carry the identifiers 1..N, each once, and a region
\* once added is never changed; the region layer is complete before any point
\* is counted or written; the tally is complete before the first record is
\* written and is not modified while records are written, so every emitted
\* count_id is the final total of its region.
C9_State ==
    /\ pc \notin {"start", "buffer"} => Len(feature_buffers) = N
    /\ \A k \in 1..Len(singlepart_layer) : singlepart_layer[k].location_id = k
    /\ pc \in {"tally", "emit", "done"} =>
          /\ Len(singlepart_layer) = Len(singlepart_geometries)
          /\ location_id = Len(singlepart_layer) + 1
    /\ (location_id_count # EmptyCount \/ sink # <<>>) => pc \in {"tally", "emit", "done"}
    /\ sink # <<>> =>
          /\ pc \in {"emit", "done"}
          /\ \A R \in RegionIds : TallyOf(R, N) > 0 =>
                R \in DOMAIN location_id_count /\ location_id_count[R] = TallyOf(R, N)
    /\ \A i \in 1..Len(sink) : Loc(i) # None => Cnt(i) = TallyOf(Loc(i), N)

C9_Step ==
    /\ \A k \in 1..Len(singlepart_layer) :
          pc # "split" => k <= Len(singlepart_layer') /\ singlepart_layer'[k] = singlepart_layer[k]
    /\ pc \in {"emit", "done"} => location_id_count' = location_id_count
    /\ PhaseOf(pc') >= PhaseOf(pc)

C9_PhaseOrdering == [](C9_State) /\ [][C9_Step]_vars

C9_Witness ==
    /\ pc = "emit"
    /\ Len(sink) = 1
    /\ Len(singlepart_layer) >= 2
    /\ Cnt(1) >= 2

\* C10: in every emitted record count_id is 0 exactly when location_id is
\* None and at least 1 otherwise, and two records with the same location_id
\* (not None) have the same count_id.
C10_OutputConsistent ==
    \A i \in 1..Len(sink) :
        /\ (Cnt(i) = 0) <=> (Loc(i) = None)
        /\ Loc(i) # None => Cnt(i) >= 1
        /\ \A j \in 1..Len(sink) : (Loc(i) = Loc(j) /\ Loc(i) # None) => Cnt(i) = Cnt(j)

C10_Witness ==
    /\ pc = "done"
    /\ \E i, j, k \in 1..Len(sink) :
          /\ i # j
          /\ Loc(i) = Loc(j)
          /\ Loc(i) # None
          /\ Cnt(i) >= 2
          /\ Loc(k) = None
          /\ Cnt(k) = 0

====
